---- MODULE Spec2Model ----
(***************************************************************************)
(* A model of the CurrencyConverter class of script.js: the loading of the *)
(* catalog, the autocomplete of the two currency fields, the conversion    *)
(* (convertCurrency and the four get*ExchangeRate methods) and the price   *)
(* chart.  Strings the code takes apart (codes, names, the text of a       *)
(* field) are sequences of one-character strings; identifiers the code     *)
(* only passes around (the pricing provider's ids) are plain strings.      *)
(***************************************************************************)
EXTENDS Integers, Sequences, FiniteSets, TLC

VARIABLES
  \* static reference data (constructor, loadStaticData)
  currencyNames,            \* this.currencyNames
  popularCurrencyCodes,     \* this.popularCurrencyCodes
  fallbackCryptoCurrencies, \* this.fallbackCryptoCurrencies
  \* catalog
  allCurrencies,            \* this.allCurrencies
  cryptoIdMap,              \* this.cryptoIdMap
  loadPc,                   \* position of init / loadStaticData / loadCurrencies
  fiatLoaded,               \* loadCurrencies' local fiatCurrencies
  inputsDisabled,           \* from-currency.disabled and to-currency.disabled
  \* the two currency fields (setupAutocomplete)
  value,                    \* input.value
  dataset,                  \* input.dataset.selectedCode / selectedType / selectedId
  listItems,                \* the .autocomplete-item elements of the field's list
  listShow,                 \* the list's "show" class
  noResults,                \* the list holds the .no-results marker
  selectedIndex,            \* setupAutocomplete's closure variable
  selectTimer,              \* the "select" handler's setTimeout is pending
  \* conversion
  swalDefined,              \* typeof Swal !== "undefined"
  amountValue,              \* document.getElementById("amount").value
  btnDisabled,              \* convert-btn.disabled
  popup,                    \* the SweetAlert2 popup on screen
  resultDiv,                \* the #result element
  tasks,                    \* the async calls awaiting a response
  \* chart
  priceChart,               \* this.priceChart
  liveCharts,               \* Chart instances created and not destroyed
  chartView                 \* what #chart-container shows

vars == << currencyNames, popularCurrencyCodes, fallbackCryptoCurrencies,
           allCurrencies, cryptoIdMap, loadPc, fiatLoaded, inputsDisabled,
           value, dataset, listItems, listShow, noResults, selectedIndex, selectTimer,
           swalDefined, amountValue, btnDisabled, popup, resultDiv, tasks,
           priceChart, liveCharts, chartView >>

staticVars  == << currencyNames, popularCurrencyCodes, fallbackCryptoCurrencies >>
catalogVars == << allCurrencies, cryptoIdMap, loadPc, fiatLoaded, inputsDisabled >>
fieldVars   == << value, dataset, listItems, listShow, noResults, selectedIndex,
                   selectTimer >>
convVars    == << amountValue, btnDisabled, popup, resultDiv, tasks >>
chartVars   == << priceChart, liveCharts, chartView >>

(***************************************************************************)
(* JavaScript values                                                       *)
(***************************************************************************)
\* undefined: a missing property, a Map miss, a deleted dataset attribute
NONE == "undefined"

Fields == {"from", "to"}

Lower == << "a","b","c","d","e","f","g","h","i","j","k","l","m",
            "n","o","p","q","r","s","t","u","v","w","x","y","z" >>
Upper == << "A","B","C","D","E","F","G","H","I","J","K","L","M",
            "N","O","P","Q","R","S","T","U","V","W","X","Y","Z" >>

LetterIndex(c) ==
  IF \E i \in 1..26 : Lower[i] = c \/ Upper[i] = c
  THEN CHOOSE i \in 1..26 : Lower[i] = c \/ Upper[i] = c
  ELSE 0

\* String.prototype.toUpperCase, character by character
toUpperCase(s) ==
  [i \in 1..Len(s) |->
     IF \E k \in 1..26 : Lower[k] = s[i] THEN Upper[LetterIndex(s[i])] ELSE s[i]]

\* String.prototype.toLowerCase
toLowerCase(s) ==
  [i \in 1..Len(s) |->
     IF \E k \in 1..26 : Upper[k] = s[i] THEN Lower[LetterIndex(s[i])] ELSE s[i]]

Min(a, b) == IF a < b THEN a ELSE b
Max(a, b) == IF a > b THEN a ELSE b

\* s.substring(0, n)
substring0(s, n) == SubSeq(s, 1, Min(Max(n, 0), Len(s)))

\* s.startsWith(p)
startsWith(s, p) == Len(p) <= Len(s) /\ SubSeq(s, 1, Len(p)) = p

\* a.localeCompare(b) < 0 for the codes of the catalog: letters in alphabetical
\* order, a lowercase letter before its uppercase, a prefix before the longer
RECURSIVE localeLess(_, _)
localeLess(a, b) ==
  IF a = << >> THEN b # << >>
  ELSE IF b = << >> THEN FALSE
  ELSE IF LetterIndex(a[1]) # LetterIndex(b[1]) THEN LetterIndex(a[1]) < LetterIndex(b[1])
  ELSE IF a[1] # b[1] /\ Tail(a) = Tail(b) THEN \E k \in 1..26 : Lower[k] = a[1]
  ELSE localeLess(Tail(a), Tail(b))

\* Map.prototype.set / get
MapSet(m, k, v) == [x \in (DOMAIN m) \cup {k} |-> IF x = k THEN v ELSE m[x]]
MapGet(m, k) == IF k \in DOMAIN m THEN m[k] ELSE NONE
EmptyMap == [x \in {} |-> NONE]

(***************************************************************************)
(* Data.  Codes and names are character sequences; the names are cut to a  *)
(* few characters (they are only displayed and searched).                  *)
(***************************************************************************)
USD == << "U","S","D" >>
EUR == << "E","U","R" >>
GBP == << "G","B","P" >>
JPY == << "J","P","Y" >>
ARS == << "A","R","S" >>
BRL == << "B","R","L" >>
BTC == << "B","T","C" >>
ETH == << "E","T","H" >>

FiatEntry(code, name) == [code |-> code, name |-> name, type |-> "fiat", id |-> NONE]
CryptoEntry(code, name, id) == [code |-> code, name |-> name, type |-> "crypto", id |-> id]

\* the data initializeFallbackData installs
FallbackNames ==
  [c \in {USD, EUR, GBP, ARS} |->
     CASE c = USD -> << "D","o","l" >>
       [] c = EUR -> << "E","u","r","o" >>
       [] c = GBP -> << "L","i","b" >>
       [] c = ARS -> << "P","e","s","o" >>]
FallbackPopular == << USD, EUR, GBP, ARS, BTC, ETH >>
FallbackCryptos ==
  << CryptoEntry(BTC, << "B","i","t" >>, "bitcoin"),
     CryptoEntry(ETH, << "E","t","h","e" >>, "ethereum") >>

\* the six entries loadFiatCurrencies returns when its request fails
FiatFallback ==
  << FiatEntry(USD, << "D","o","l" >>), FiatEntry(EUR, << "E","u","r","o" >>),
     FiatEntry(GBP, << "L","i","b" >>), FiatEntry(JPY, << "Y","e","n" >>),
     FiatEntry(ARS, << "P","e","s","o" >>), FiatEntry(BRL, << "R","e","a","l" >>) >>

(***************************************************************************)
(* Responses of fetch: the promise of fetch() rejects, or it resolves and  *)
(* response.json() rejects or yields a body; response.ok is the status.    *)
(* One step of the model is fetch() and response.json() settling: nothing  *)
(* of the program's state is read between the two awaits.                  *)
(***************************************************************************)
Responses(Bodies, noBody) ==
  {[fetch |-> "rejected", json |-> NONE, ok |-> FALSE, body |-> noBody]}
  \cup {[fetch |-> "resolved", json |-> "rejected", ok |-> o, body |-> noBody] : o \in BOOLEAN}
  \cup {[fetch |-> "resolved", json |-> "parsed", ok |-> o, body |-> b] :
          o \in BOOLEAN, b \in Bodies}

\* the awaits "await fetch(..)" and "await response.json()" both returned
Parsed(r) == r.fetch = "resolved" /\ r.json = "parsed"

Range(q) == {q[i] : i \in 1..Len(q)}
NoRep(q) == \A i, j \in 1..Len(q) : q[i] = q[j] => i = j

\* the sequences without repetition of at most n elements of S
RECURSIVE SeqsNoRep(_, _)
SeqsNoRep(S, n) ==
  IF n = 0 THEN {<< >>}
  ELSE LET shorter == SeqsNoRep(S, n - 1)
       IN  shorter \cup
           {Append(p[1], p[2]) :
              p \in {c \in {t \in shorter : Len(t) = n - 1} \X S : c[2] \notin Range(c[1])}}

(***************************************************************************)
(* The popup of SweetAlert2 and the #result element                        *)
(***************************************************************************)
MsgSelect == "Por favor selecciona ambas monedas de la lista"
MsgAmount == "Por favor ingresa un monto valido"
MsgSame   == "No puedes convertir una moneda a si misma"
MsgQuote  == "Error al obtener la cotizacion. Intenta nuevamente."
MsgLoad   == "Error al cargar las monedas disponibles"

NoPopup == [kind |-> "none", text |-> ""]
Popup(kind, text) == [kind |-> kind, text |-> text]

\* a JavaScript number: a fraction n/d, NaN, Infinity, or undefined where a
\* number was expected
Num(n, d) == [t |-> "num", n |-> n, d |-> d]
NaN == [t |-> "NaN", n |-> 0, d |-> 1]
Infinity == [t |-> "Infinity", n |-> 1, d |-> 1]
Undefined == [t |-> "undefined", n |-> 0, d |-> 1]

ResultEmpty ==
  [cls |-> "result-section", kind |-> "empty", text |-> "", from |-> << >>, to |-> << >>,
   amount |-> Undefined, converted |-> Undefined, rate |-> Undefined, sources |-> ""]

\* showError that leaves the button as it is
showErrorKeepsButton(message) ==
  /\ btnDisabled' = btnDisabled
  /\ popup' = IF swalDefined THEN Popup("error", message) ELSE popup
  /\ resultDiv' = IF swalDefined THEN resultDiv
                  ELSE [ResultEmpty EXCEPT !.kind = "error", !.text = message]

\* showError(message): the button is enabled again, the message goes to the
\* popup or, without SweetAlert2, to the #result element
showError(message) ==
  /\ btnDisabled' = FALSE
  /\ popup' = IF swalDefined THEN Popup("error", message) ELSE popup
  /\ resultDiv' = IF swalDefined THEN resultDiv
                  ELSE [ResultEmpty EXCEPT !.kind = "error", !.text = message]

(***************************************************************************)
(* Catalog: loadStaticData, loadCurrencies, loadFiatCurrencies,            *)
(* loadCryptoCurrencies                                                    *)
(***************************************************************************)
\* a table of the static data, or undefined when the file lacks it
Table(items) == [defined |-> TRUE, items |-> items]
NoTable == [defined |-> FALSE, items |-> << >>]

\* what the three JSON files can hold: the tables, or a file that parses but
\* lacks the expected table
StaticBundles ==
  { [names |-> [c \in {USD, EUR} |-> IF c = USD THEN << "D","o","l" >> ELSE << "E","u","r","o" >>],
     popular |-> Table(<< USD, BTC, JPY >>),
     cryptos |-> Table(<< CryptoEntry(BTC, << "B","i","t" >>, "bitcoin") >>)],
    [names |-> EmptyMap, popular |-> NoTable, cryptos |-> NoTable] }

\* this.currencyNames[code] || fallback
NameOf(names, code, fallback) == IF code \in DOMAIN names THEN names[code] ELSE fallback

\* fiatCurrencies.sort((a, b) => a.code.localeCompare(b.code)): a stable sort
RECURSIVE insertByCode(_, _)
insertByCode(e, sorted) ==
  IF sorted = << >> THEN << e >>
  ELSE IF localeLess(e.code, sorted[1].code) THEN << e >> \o sorted
  ELSE << sorted[1] >> \o insertByCode(e, Tail(sorted))

RECURSIVE sortByCode(_)
sortByCode(q) ==
  IF q = << >> THEN << >>
  ELSE insertByCode(q[Len(q)], sortByCode(SubSeq(q, 1, Len(q) - 1)))

\* the body of the fiat rate provider: { rates: { code: number } }, the keys in
\* the order Object.keys gives them
NoRatesBody == [hasRates |-> FALSE, rates |-> << >>]
RatesBody(rates) == [hasRates |-> TRUE, rates |-> rates]

\* loadFiatCurrencies returning its list as mapped, without the sort
loadFiatCurrenciesUnsorted(r, names) ==
  IF Parsed(r) /\ r.ok /\ r.body.hasRates
  THEN LET keys == r.body.rates
           mapped == [i \in 1..Len(keys) |->
                        FiatEntry(keys[i].k, NameOf(names, keys[i].k, keys[i].k))]
       IN  << FiatEntry(USD, NameOf(names, USD, << "D","o","l" >>)) >> \o mapped
  ELSE FiatFallback

\* loadFiatCurrencies: the entries it returns for response r
loadFiatCurrencies(r, names) ==
  IF Parsed(r) /\ r.ok /\ r.body.hasRates
  THEN LET keys == r.body.rates
           mapped == [i \in 1..Len(keys) |->
                        FiatEntry(keys[i].k, NameOf(names, keys[i].k, keys[i].k))]
           withUsd == << FiatEntry(USD, NameOf(names, USD, << "D","o","l" >>)) >> \o mapped
       IN  sortByCode(withUsd)
  ELSE FiatFallback

\* the body of the crypto ranking provider: an array of { id, symbol, name },
\* or something that is no array
NoRankingBody == [isArray |-> FALSE, items |-> << >>]
RankingBody(items) == [isArray |-> TRUE, items |-> items]
Asset(id, symbol, name) == [id |-> id, symbol |-> symbol, name |-> name, hasSymbol |-> TRUE]
\* an element without a symbol: cryptoData.symbol.toUpperCase() throws
BadAsset == [id |-> "broken", symbol |-> << >>, name |-> << >>, hasSymbol |-> FALSE]

\* data.map(...): the index of the first element on which the callback throws
\* (0: none)
firstBad(items) ==
  IF \E i \in 1..Len(items) : ~items[i].hasSymbol
  THEN CHOOSE i \in 1..Len(items) :
         ~items[i].hasSymbol /\ \A j \in 1..(i - 1) : items[j].hasSymbol
  ELSE 0

\* the cryptoIdMap.set calls keyed by the symbol as the provider spells it
RECURSIVE setLiveNoUpper(_, _)
setLiveNoUpper(items, m) ==
  IF items = << >> \/ ~items[1].hasSymbol THEN m
  ELSE setLiveNoUpper(Tail(items), MapSet(m, items[1].symbol, items[1].id))

\* the cryptoIdMap.set calls of data.map, up to the element that throws
RECURSIVE setLive(_, _)
setLive(items, m) ==
  IF items = << >> \/ ~items[1].hasSymbol THEN m
  ELSE setLive(Tail(items), MapSet(m, toUpperCase(items[1].symbol), items[1].id))

liveEntries(items) ==
  [i \in 1..Len(items) |->
     CryptoEntry(toUpperCase(items[i].symbol), items[i].name, items[i].id)]

\* a catch block that leaves the cryptoIdMap as it is
setFallbackNone(items, m) == m

\* the forEach of the catch block
RECURSIVE setFallback(_, _)
setFallback(items, m) ==
  IF items = << >> THEN m
  ELSE setFallback(Tail(items), MapSet(m, items[1].code, items[1].id))

\* loadCryptoCurrencies: whether it throws, the entries it returns and the
\* cryptoIdMap it leaves, for response r
loadCryptoCurrencies(r, m, fallback) ==
  IF Parsed(r) /\ r.ok /\ r.body.isArray /\ firstBad(r.body.items) = 0
  THEN [threw |-> FALSE, entries |-> liveEntries(r.body.items),
        map |-> setLive(r.body.items, m)]
  ELSE LET m1 == IF Parsed(r) /\ r.ok /\ r.body.isArray
                 THEN setLive(r.body.items, m) ELSE m
       IN  IF fallback.defined
           THEN [threw |-> FALSE, entries |-> fallback.items,
                 map |-> setFallback(fallback.items, m1)]
           ELSE [threw |-> TRUE, entries |-> << >>, map |-> m1]

\* getCryptoId(currencyCode)
getCryptoId(currencyCode) == MapGet(cryptoIdMap, toUpperCase(currencyCode))

\* bounds of the provider responses the catalog is loaded from
MaxRates == 2
MaxRank == 2

RatesPool == {USD, EUR, ARS}
RankPool ==
  { Asset("bitcoin", << "b","t","c" >>, << "B","i","t" >>),
    Asset("ethereum", << "e","t","h" >>, << "E","t","h","e" >>),
    Asset("batcat", << "b","t","c" >>, << "B","a","t" >>),
    Asset("euro-coin", << "e","u","r" >>, << "E","u","r","C" >>),
    BadAsset }

One == Num(1, 1)
FiatSnapshots ==
  {[i \in 1..Len(q) |-> [k |-> q[i], v |-> One]] : q \in SeqsNoRep(RatesPool, MaxRates)}
FiatLoadResponses ==
  Responses({NoRatesBody} \cup {RatesBody(t) : t \in FiatSnapshots}, NoRatesBody)
RankingResponses ==
  Responses({NoRankingBody} \cup {RankingBody(q) : q \in SeqsNoRep(RankPool, MaxRank)},
            NoRankingBody)

\* the state the constructor leaves
NoSelection == [selectedCode |-> << >>, selectedType |-> NONE, selectedId |-> NONE]
\* this.priceChart: null, or the Chart instance (replaced: createPriceChart
\* destroyed an earlier instance when it made this one)
NoChart == [exists |-> FALSE, replaced |-> FALSE, title |-> << >>, labels |-> << >>,
            data |-> << >>]
\* the display of #chart-container, #price-chart, .chart-loading, .chart-error
ChartHidden == [container |-> FALSE, canvas |-> TRUE, loading |-> FALSE, error |-> FALSE]

InitFields ==
  /\ value = [f \in Fields |-> << >>]
  /\ dataset = [f \in Fields |-> NoSelection]
  /\ listItems = [f \in Fields |-> << >>]
  /\ listShow = [f \in Fields |-> FALSE]
  /\ noResults = [f \in Fields |-> FALSE]
  /\ selectedIndex = [f \in Fields |-> -1]
  /\ selectTimer = [f \in Fields |-> FALSE]

InitPage ==
  /\ swalDefined \in BOOLEAN
  /\ btnDisabled = FALSE
  /\ popup = NoPopup
  /\ resultDiv = ResultEmpty
  /\ tasks = << >>
  /\ priceChart = NoChart
  /\ liveCharts = 0
  /\ chartView = ChartHidden

InitCatalog ==
  /\ amountValue = << >>
  /\ currencyNames = EmptyMap
  /\ popularCurrencyCodes = Table(<< >>)
  /\ fallbackCryptoCurrencies = Table(<< >>)
  /\ allCurrencies = << >>
  /\ cryptoIdMap = EmptyMap
  /\ loadPc = "static"
  /\ fiatLoaded = << >>
  /\ inputsDisabled = FALSE
  /\ InitFields
  /\ InitPage

\* showCurrencyLoading and the first request of loadCurrencies
startLoadCurrencies ==
  /\ inputsDisabled' = TRUE
  /\ loadPc' = "fiat"

\* loadStaticData settles, then init's callback showWelcomeMessage runs
LoadStaticData(ok, bundle) ==
  /\ loadPc = "static"
  /\ IF ok
     THEN /\ currencyNames' = bundle.names
          /\ popularCurrencyCodes' = bundle.popular
          /\ fallbackCryptoCurrencies' = bundle.cryptos
     ELSE \* initializeFallbackData
          /\ currencyNames' = FallbackNames
          /\ popularCurrencyCodes' = Table(FallbackPopular)
          /\ fallbackCryptoCurrencies' = Table(FallbackCryptos)
  /\ IF swalDefined
     THEN /\ popup' = Popup("welcome", "")
          /\ loadPc' = "welcome"
          /\ UNCHANGED inputsDisabled
     ELSE /\ startLoadCurrencies
          /\ UNCHANGED popup
  /\ UNCHANGED << allCurrencies, cryptoIdMap, fiatLoaded, fieldVars, swalDefined,
                  amountValue, btnDisabled, resultDiv, tasks, chartVars >>

\* the user confirms the welcome popup: loadCurrencies starts
ConfirmWelcome ==
  /\ loadPc = "welcome"
  /\ popup' = NoPopup
  /\ startLoadCurrencies
  /\ UNCHANGED << staticVars, allCurrencies, cryptoIdMap, fiatLoaded, fieldVars,
                  swalDefined, amountValue, btnDisabled, resultDiv, tasks, chartVars >>

\* loadFiatCurrencies settles; loadCurrencies goes on to loadCryptoCurrencies
FiatLoaded(r) ==
  /\ loadPc = "fiat"
  /\ fiatLoaded' = loadFiatCurrencies(r, currencyNames)
  /\ loadPc' = "crypto"
  /\ UNCHANGED << staticVars, allCurrencies, cryptoIdMap, inputsDisabled, fieldVars,
                  swalDefined, convVars, chartVars >>

\* loadCryptoCurrencies settles; loadCurrencies builds the catalog and calls
\* populateSelects, or catches what loadCryptoCurrencies threw
CryptoLoaded(r) ==
  /\ loadPc = "crypto"
  /\ LET res == loadCryptoCurrencies(r, cryptoIdMap, fallbackCryptoCurrencies)
     IN  /\ cryptoIdMap' = res.map
         /\ IF res.threw
            THEN /\ loadPc' = "failed"
                 /\ showError(MsgLoad)
                 /\ UNCHANGED << allCurrencies, inputsDisabled >>
            ELSE /\ loadPc' = "done"
                 /\ allCurrencies' = fiatLoaded \o res.entries
                 /\ inputsDisabled' = FALSE
                 /\ popup' = IF swalDefined THEN Popup("loaded", "") ELSE popup
                 /\ UNCHANGED << btnDisabled, resultDiv >>
  /\ UNCHANGED << staticVars, fiatLoaded, fieldVars, swalDefined, amountValue, tasks,
                  chartVars >>

NextCatalog ==
  \/ \E b \in StaticBundles : LoadStaticData(TRUE, b)
  \/ \E b \in StaticBundles : LoadStaticData(FALSE, b)
  \/ ConfirmWelcome
  \/ \E r \in FiatLoadResponses : FiatLoaded(r)
  \/ \E r \in RankingResponses : CryptoLoaded(r)

SpecCatalog == InitCatalog /\ [][NextCatalog]_vars

\* the load of SpecCatalogFair: the static files, the welcome popup and the
\* two requests of loadCurrencies all settle in the end
FairnessCatalog ==
  /\ WF_vars(\E ok \in BOOLEAN : \E b \in StaticBundles : LoadStaticData(ok, b))
  /\ WF_vars(ConfirmWelcome)
  /\ WF_vars(\E r \in FiatLoadResponses : FiatLoaded(r))
  /\ WF_vars(\E r \in RankingResponses : CryptoLoaded(r))
SpecCatalogFair == InitCatalog /\ [][NextCatalog]_vars /\ FairnessCatalog

(***************************************************************************)
(* Numbers: parseFloat and the arithmetic of the rate computations         *)
(***************************************************************************)
Digits == << "0","1","2","3","4","5","6","7","8","9" >>
IsDigit(c) == \E i \in 1..10 : Digits[i] = c
DigitValue(c) == (CHOOSE i \in 1..10 : Digits[i] = c) - 1

RECURSIVE gcd(_, _)
gcd(a, b) == IF b = 0 THEN a ELSE gcd(b, a % b)
Abs(n) == IF n < 0 THEN -n ELSE n
\* the fraction n/d in lowest terms, d > 0
Frac(n, d) == LET g == gcd(Abs(n), d) IN Num(n \div g, d \div g)

\* the value of the longest prefix of digits of s, read after the digits acc
RECURSIVE digitsValue(_, _)
digitsValue(s, acc) ==
  IF s = << >> \/ ~IsDigit(s[1]) THEN acc
  ELSE digitsValue(Tail(s), 10 * acc + DigitValue(s[1]))

\* parseFloat(text) for a text of an optional sign and digits (no fraction,
\* no exponent): NaN when no digit follows the sign
parseFloat(s) ==
  LET neg == s # << >> /\ s[1] = "-"
      body == IF neg THEN Tail(s) ELSE s
  IN  IF body = << >> \/ ~IsDigit(body[1]) THEN NaN
      ELSE Num((IF neg THEN -1 ELSE 1) * digitsValue(body, 0), 1)

\* a * b
JsMul(a, b) ==
  IF a.t = "num" /\ b.t = "num" THEN Frac(a.n * b.n, a.d * b.d)
  ELSE IF a.t \in {"NaN", "undefined"} \/ b.t \in {"NaN", "undefined"} THEN NaN
  ELSE IF (a.t = "num" /\ a.n = 0) \/ (b.t = "num" /\ b.n = 0) THEN NaN
  ELSE Infinity

\* a / b
JsDiv(a, b) ==
  IF a.t = "num" /\ b.t = "num"
  THEN IF b.n # 0 THEN Frac(a.n * b.d * (IF b.n < 0 THEN -1 ELSE 1), a.d * Abs(b.n))
       ELSE IF a.n = 0 THEN NaN ELSE Infinity
  ELSE IF a.t \in {"NaN", "undefined"} \/ b.t \in {"NaN", "undefined"} THEN NaN
  ELSE IF a.t = "Infinity" /\ b.t = "Infinity" THEN NaN
  ELSE IF a.t = "Infinity" THEN Infinity
  ELSE Num(0, 1)

\* !amount || amount <= 0
notPositive(amount) == amount.t \in {"NaN", "undefined"} \/ (amount.t = "num" /\ amount.n <= 0)

(***************************************************************************)
(* Rate resolution: the four get*ExchangeRate methods.  Each is given as   *)
(* what it does with a response: throw, return a rate, or go on to its     *)
(* second request holding the price it read.                               *)
(***************************************************************************)
\* data[id] of the price provider: absent, or an object with or without usd
NoPrice == [present |-> FALSE, usd |-> Undefined]
Price(usd) == [present |-> TRUE, usd |-> usd]

Throw == [status |-> "throw", v |-> Undefined, held |-> NoPrice]
Return(v) == [status |-> "return", v |-> v, held |-> NoPrice]
Await(held) == [status |-> "await", v |-> Undefined, held |-> held]

\* data.rates[code]
rateOf(rates, code) ==
  IF \E i \in 1..Len(rates) : rates[i].k = code
  THEN rates[CHOOSE i \in 1..Len(rates) : rates[i].k = code].v
  ELSE Undefined

\* getFiatToFiatExchangeRate handing out the inverse of the table's rate
getFiatToFiatExchangeRateInverse(r, toCurrency) ==
  IF ~Parsed(r) THEN Throw
  ELSE IF ~r.ok THEN Throw
  ELSE IF ~r.body.hasRates THEN Throw
  ELSE Return(JsDiv(One, rateOf(r.body.rates, toCurrency)))

getFiatToFiatExchangeRate(r, toCurrency) ==
  IF ~Parsed(r) THEN Throw
  ELSE IF ~r.ok THEN Throw
  ELSE IF ~r.body.hasRates THEN Throw
  ELSE Return(rateOf(r.body.rates, toCurrency))

\* getCryptoToCryptoExchangeRate with the quotient turned around
getCryptoToCryptoExchangeRateInverted(r, fromCryptoId, toCryptoId) ==
  IF ~Parsed(r) THEN Throw
  ELSE IF ~r.ok THEN Throw
  ELSE IF ~r.body[fromCryptoId].present \/ ~r.body[toCryptoId].present THEN Throw
  ELSE Return(JsDiv(r.body[toCryptoId].usd, r.body[fromCryptoId].usd))

getCryptoToCryptoExchangeRate(r, fromCryptoId, toCryptoId) ==
  IF ~Parsed(r) THEN Throw
  ELSE IF ~r.ok THEN Throw
  ELSE IF ~r.body[fromCryptoId].present \/ ~r.body[toCryptoId].present THEN Throw
  ELSE Return(JsDiv(r.body[fromCryptoId].usd, r.body[toCryptoId].usd))

\* getFiatToCryptoExchangeRate asking for the fiat table whatever the fiat code
getFiatToCryptoPriceAlwaysTable(r, fromFiat, cryptoId) ==
  IF ~Parsed(r) THEN Throw
  ELSE Await(r.body[cryptoId])

\* getFiatToCryptoExchangeRate up to its second fetch
getFiatToCryptoPrice(r, fromFiat, cryptoId) ==
  IF ~Parsed(r) THEN Throw
  ELSE IF fromFiat = USD
       THEN IF ~r.body[cryptoId].present THEN Throw
            ELSE Return(JsDiv(One, r.body[cryptoId].usd))
       ELSE Await(r.body[cryptoId])

\* getFiatToCryptoExchangeRate after its second fetch
getFiatToCryptoFiat(r, held) ==
  IF ~Parsed(r) THEN Throw
  ELSE IF ~r.body.hasRates THEN Throw
  ELSE IF ~held.present THEN Throw
  ELSE Return(JsDiv(rateOf(r.body.rates, USD), held.usd))

\* getCryptoToFiatExchangeRate up to its second fetch
getCryptoToFiatPrice(r, toFiat, cryptoId) ==
  IF ~Parsed(r) THEN Throw
  ELSE IF ~r.body[cryptoId].present THEN Throw
  ELSE IF toFiat = USD THEN Return(r.body[cryptoId].usd)
  ELSE Await(r.body[cryptoId])

\* getCryptoToFiatExchangeRate after its second fetch
getCryptoToFiatFiat(r, held, toFiat) ==
  IF ~Parsed(r) THEN Throw
  ELSE IF ~r.body.hasRates THEN Throw
  ELSE Return(JsMul(held.usd, rateOf(r.body.rates, toFiat)))

\* the values the providers quote
RateValues == {Frac(9, 10)}
PriceValues == {Num(2, 1), Num(4, 1)}

\* the bodies a fiat table request can get, as far as the key looked up goes
TableBodies(code) ==
  {NoRatesBody, RatesBody(<< >>)} \cup {RatesBody(<< [k |-> code, v |-> x] >>) : x \in RateValues}
TableResponses(code) == Responses(TableBodies(code), NoRatesBody)

\* the bodies a price request for ids can get
PriceEntries == {NoPrice, Price(Undefined)} \cup {Price(x) : x \in PriceValues}
PriceResponses(ids) == Responses([ids -> PriceEntries], [i \in ids |-> NoPrice])

(***************************************************************************)
(* The calls awaiting a response.  A "rate" task is a convertCurrency call *)
(* inside one of the rate methods, a "chart" task a displayPriceChart call *)
(* inside getCryptocurrencyHistoricalData or getFiatCurrencyHistoricalData.*)
(***************************************************************************)
Task(kind, pc, from, to, amount, fromId, toId, held, inverse) ==
  [kind |-> kind, pc |-> pc, from |-> from, to |-> to, amount |-> amount,
   fromId |-> fromId, toId |-> toId, held |-> held, inverse |-> inverse]

\* bound on the calls awaiting a response at one time
MaxTasks == 2

RemoveAt(q, i) == SubSeq(q, 1, i - 1) \o SubSeq(q, i + 1, Len(q))

\* dataset.selectedType || "fiat"
typeOrFiat(f) == IF dataset[f].selectedType = NONE THEN "fiat" ELSE dataset[f].selectedType

\* dataset.selectedId || this.getCryptoId(code)
idOf(f, code) ==
  IF dataset[f].selectedId # NONE THEN dataset[f].selectedId ELSE getCryptoId(code)

\* validationError without the check of identical codes
validationErrorNoSame(fromCurrencyCode, toCurrencyCode, amount) ==
  IF fromCurrencyCode = << >> \/ toCurrencyCode = << >> THEN MsgSelect
  ELSE IF notPositive(amount) THEN MsgAmount
  ELSE ""

\* the message of the validation that fails in convertCurrency, "" when none
validationError(fromCurrencyCode, toCurrencyCode, amount) ==
  IF fromCurrencyCode = << >> \/ toCurrencyCode = << >> THEN MsgSelect
  ELSE IF notPositive(amount) THEN MsgAmount
  ELSE IF fromCurrencyCode = toCurrencyCode THEN MsgSame
  ELSE ""

\* showLoadingIndicator
showLoadingIndicator ==
  /\ btnDisabled' = TRUE
  /\ popup' = IF swalDefined THEN Popup("loading", "") ELSE popup
  /\ resultDiv' = IF swalDefined THEN resultDiv
                  ELSE [ResultEmpty EXCEPT !.cls = "result-section loading", !.kind = "loading"]

\* the rate method convertCurrency calls, and the request that method issues first
firstRequest(fromCode, toCode, amount) ==
  LET fromType == dataset["from"].selectedType
      toType == dataset["to"].selectedType
  IN  IF fromType = "fiat" /\ toType = "fiat"
      THEN Task("rate", "f2f", fromCode, toCode, amount, NONE, NONE, NoPrice, FALSE)
      ELSE IF fromType = "crypto" /\ toType = "crypto"
      THEN Task("rate", "c2c", fromCode, toCode, amount,
                idOf("from", fromCode), idOf("to", toCode), NoPrice, FALSE)
      ELSE IF fromType = "fiat" /\ toType = "crypto"
      THEN Task("rate", "f2c_price", fromCode, toCode, amount,
                NONE, idOf("to", toCode), NoPrice, FALSE)
      ELSE Task("rate", "c2f_price", fromCode, toCode, amount,
                idOf("from", fromCode), NONE, NoPrice, FALSE)

\* convertCurrency up to its first await
convertCurrency ==
  LET amount == parseFloat(amountValue)
      fromCurrencyCode == dataset["from"].selectedCode
      toCurrencyCode == dataset["to"].selectedCode
      error == validationError(fromCurrencyCode, toCurrencyCode, amount)
  IN  IF error # ""
      THEN /\ showError(error)
           /\ UNCHANGED tasks
      ELSE /\ Len(tasks) < MaxTasks
           /\ showLoadingIndicator
           /\ tasks' = Append(tasks, firstRequest(fromCurrencyCode, toCurrencyCode, amount))

\* a click on the submit control; a disabled button gets no click
ClickConvert ==
  /\ ~btnDisabled
  /\ convertCurrency
  /\ UNCHANGED << staticVars, catalogVars, fieldVars, swalDefined, amountValue, chartVars >>

\* Enter pressed in the amount field
EnterAmount ==
  /\ convertCurrency
  /\ UNCHANGED << staticVars, catalogVars, fieldVars, swalDefined, amountValue, chartVars >>

(***************************************************************************)
(* Historical series and the chart                                         *)
(***************************************************************************)
\* the days of a series: dayOffset runs from 29 down to 0
ChartDays == 30

\* a value of a series: within pct percent of base (the Math.random
\* perturbations are not drawn one by one)
Point(base, pct) == [base |-> base, pct |-> pct]

\* the labels of the synthesized series: today - 29 days, ..., today
dayLabels == [i \in 1..ChartDays |-> i - ChartDays]

Series(labels, data) == [threw |-> FALSE, labels |-> labels, data |-> data]
SeriesThrow == [threw |-> TRUE, labels |-> << >>, data |-> << >>]

generateFallbackChartData == Series(dayLabels, [i \in 1..ChartDays |-> Point(One, 1)])

\* getFiatCurrencyHistoricalData that lets the error of the baseline request out
getFiatCurrencyHistoricalDataNoCatch(r, toCurrency) ==
  LET current == getFiatToFiatExchangeRate(r, toCurrency)
  IN  IF current.status = "throw" THEN SeriesThrow
      ELSE Series(dayLabels, [i \in 1..ChartDays |-> Point(JsMul(current.v, One), 2)])

\* getFiatCurrencyHistoricalData, given the response to its baseline request
getFiatCurrencyHistoricalData(r, toCurrency) ==
  LET current == getFiatToFiatExchangeRate(r, toCurrency)
  IN  IF current.status = "throw" THEN generateFallbackChartData
      ELSE Series(dayLabels, [i \in 1..ChartDays |-> Point(JsMul(current.v, One), 2)])

\* the body of the history provider: { prices: [[timestamp, price], ...] }
NoPricesBody == [hasPrices |-> FALSE, prices |-> << >>]
PricesBody(prices) == [hasPrices |-> TRUE, prices |-> prices]
\* n daily points ending today, oldest first
dailyPrices(n, price) == [i \in 1..n |-> [day |-> i - n, price |-> price]]
HistLengths == {0, 1, ChartDays, ChartDays + 1}
\* the price a history quotes for each of its days
HistValues == {Num(2, 1)}
HistBodies ==
  {NoPricesBody} \cup {PricesBody(dailyPrices(n, x)) : n \in HistLengths, x \in HistValues}
HistResponses == Responses(HistBodies, NoPricesBody)

\* getCryptocurrencyHistoricalData that leaves the prices as they come
getCryptocurrencyHistoricalDataAsQuoted(r, isInverse) ==
  IF r.fetch = "rejected" THEN SeriesThrow
  ELSE IF ~r.ok THEN SeriesThrow
  ELSE IF r.json = "rejected" THEN SeriesThrow
  ELSE IF ~r.body.hasPrices THEN SeriesThrow
  ELSE LET priceData == r.body.prices
       IN  Series([i \in 1..Len(priceData) |-> priceData[i].day],
                  [i \in 1..Len(priceData) |-> Point(priceData[i].price, 0)])

\* getCryptocurrencyHistoricalData after its fetch, given the response
getCryptocurrencyHistoricalData(r, isInverse) ==
  IF r.fetch = "rejected" THEN SeriesThrow
  ELSE IF ~r.ok THEN SeriesThrow
  ELSE IF r.json = "rejected" THEN SeriesThrow
  ELSE IF ~r.body.hasPrices THEN SeriesThrow
  ELSE LET priceData == r.body.prices
           processed == IF isInverse
                        THEN [i \in 1..Len(priceData) |->
                                [day |-> priceData[i].day,
                                 price |-> JsDiv(One, priceData[i].price)]]
                        ELSE priceData
       IN  Series([i \in 1..Len(processed) |-> processed[i].day],
                  [i \in 1..Len(processed) |-> Point(processed[i].price, 0)])

\* createPriceChart that does not destroy the previous instance
liveAfterCreateNoDestroy(chart, live) == live + 1

\* createPriceChart: the live instances after it destroyed this.priceChart,
\* if any, and made the new Chart
liveAfterCreate(chart, live) == (IF chart.exists THEN live - 1 ELSE live) + 1

createPriceChart(chartData, chartTitle) ==
  /\ liveCharts' = liveAfterCreate(priceChart, liveCharts)
  /\ priceChart' = [exists |-> TRUE, replaced |-> priceChart.exists, title |-> chartTitle,
                    labels |-> chartData.labels, data |-> chartData.data]

\* showChartLoadingIndicator, hideChartLoadingIndicator, showChartError
chartLoadingView == [chartView EXCEPT !.container = TRUE, !.canvas = FALSE, !.loading = TRUE]
chartShownView == [chartView EXCEPT !.loading = FALSE, !.canvas = TRUE]
chartErrorView == [chartView EXCEPT !.canvas = FALSE, !.loading = FALSE, !.error = TRUE]

\* getDataSourcesDescription
getDataSourcesDescription ==
  LET crypto == typeOrFiat("from") = "crypto" \/ typeOrFiat("to") = "crypto"
      fiat == typeOrFiat("from") = "fiat" \/ typeOrFiat("to") = "fiat"
  IN  IF crypto /\ fiat THEN "CoinGecko API y ExchangeRate-API"
      ELSE IF crypto THEN "CoinGecko API"
      ELSE IF fiat THEN "ExchangeRate-API"
      ELSE "fuentes financieras confiables"

\* displayPriceChart up to its first await, called for the call at position i:
\* the call becomes a chart task, or ends in showChartError when no id is known
displayPriceChart(i, fromCurrency, toCurrency) ==
  LET fromType == typeOrFiat("from")
      toType == typeOrFiat("to")
      crypto == IF fromType = "crypto" THEN fromCurrency ELSE toCurrency
      cryptoId == getCryptoId(crypto)
      inverse == fromType # "crypto"
      t == tasks[i]
  IN  IF fromType = "crypto" \/ toType = "crypto"
      THEN IF cryptoId = NONE
           THEN /\ tasks' = RemoveAt(tasks, i)
                /\ chartView' = [chartErrorView EXCEPT !.container = TRUE]
           ELSE /\ tasks' = [tasks EXCEPT ![i] =
                               Task("chart", "hist", fromCurrency, toCurrency, t.amount,
                                    cryptoId, NONE, NoPrice, inverse)]
                /\ chartView' = chartLoadingView
      ELSE /\ tasks' = [tasks EXCEPT ![i] =
                          Task("chart", "fiatHist", fromCurrency, toCurrency, t.amount,
                               NONE, NONE, NoPrice, FALSE)]
           /\ chartView' = chartLoadingView

\* displayConversionResult for the call at position i
displayConversionResult(i, originalAmount, fromCurrency, convertedAmount, toCurrency,
                        exchangeRate) ==
  /\ resultDiv' = [cls |-> "result-section show-result", kind |-> "result", text |-> "",
                   from |-> fromCurrency, to |-> toCurrency, amount |-> originalAmount,
                   converted |-> convertedAmount, rate |-> exchangeRate,
                   sources |-> getDataSourcesDescription]
  /\ btnDisabled' = FALSE
  /\ popup' = IF swalDefined THEN Popup("success", "") ELSE popup
  /\ displayPriceChart(i, fromCurrency, toCurrency)

\* what the rate method of the call t does with response r
rateStep(t, r) ==
  CASE t.pc = "f2f" -> getFiatToFiatExchangeRate(r, t.to)
    [] t.pc = "c2c" -> getCryptoToCryptoExchangeRate(r, t.fromId, t.toId)
    [] t.pc = "f2c_price" -> getFiatToCryptoPrice(r, t.from, t.toId)
    [] t.pc = "f2c_fiat" -> getFiatToCryptoFiat(r, t.held)
    [] t.pc = "c2f_price" -> getCryptoToFiatPrice(r, t.to, t.fromId)
    [] t.pc = "c2f_fiat" -> getCryptoToFiatFiat(r, t.held, t.to)

\* the responses the request of the call t can get
responsesOf(t) ==
  CASE t.pc = "f2f" -> TableResponses(t.to)
    [] t.pc = "c2c" -> PriceResponses({t.fromId, t.toId})
    [] t.pc = "f2c_price" -> PriceResponses({t.toId})
    [] t.pc = "f2c_fiat" -> TableResponses(USD)
    [] t.pc = "c2f_price" -> PriceResponses({t.fromId})
    [] t.pc = "c2f_fiat" -> TableResponses(t.to)
    [] t.pc = "hist" -> HistResponses
    [] t.pc = "fiatHist" -> TableResponses(t.to)

\* convertCurrency, resumed with response r for the rate call at position i,
\* goes on to its next await, to displayConversionResult, or to its catch block
convertCurrencyResumes(i, r) ==
  /\ LET t == tasks[i]
         res == rateStep(t, r)
     IN  CASE res.status = "await" ->
                /\ tasks' = [tasks EXCEPT ![i] =
                               [t EXCEPT !.pc = IF t.pc = "f2c_price" THEN "f2c_fiat"
                                                ELSE "c2f_fiat",
                                         !.held = res.held]]
                /\ UNCHANGED << btnDisabled, popup, resultDiv, chartVars >>
           [] res.status = "throw" ->
                /\ tasks' = RemoveAt(tasks, i)
                /\ showError(MsgQuote)
                /\ UNCHANGED chartVars
           [] res.status = "return" ->
                /\ displayConversionResult(i, t.amount, t.from, JsMul(t.amount, res.v),
                                           t.to, res.v)
                /\ UNCHANGED << priceChart, liveCharts >>
  /\ UNCHANGED << staticVars, catalogVars, fieldVars, swalDefined, amountValue >>

\* the request of the rate call at position i settles with response r
RateSettles(i, r) ==
  /\ i \in 1..Len(tasks)
  /\ tasks[i].kind = "rate"
  /\ r \in responsesOf(tasks[i])
  /\ convertCurrencyResumes(i, r)

\* the request of the chart call at position i settles with response r:
\* displayPriceChart draws the chart or shows the chart error
ChartSettles(i, r) ==
  /\ i \in 1..Len(tasks)
  /\ tasks[i].kind = "chart"
  /\ r \in responsesOf(tasks[i])
  /\ LET t == tasks[i]
         historicalData == IF t.pc = "hist"
                           THEN getCryptocurrencyHistoricalData(r, t.inverse)
                           ELSE getFiatCurrencyHistoricalData(r, t.to)
     IN  IF historicalData.threw
         THEN /\ chartView' = chartErrorView
              /\ UNCHANGED << priceChart, liveCharts >>
         ELSE /\ chartView' = chartShownView
              /\ createPriceChart(historicalData, << t.from, t.to >>)
  /\ tasks' = RemoveAt(tasks, i)
  /\ UNCHANGED << staticVars, catalogVars, fieldVars, swalDefined, amountValue,
                  btnDisabled, popup, resultDiv >>

\* the texts the amount field can hold
AmountTexts == { << >>, << "0" >>, << "-","5" >>, << "1","0","0" >> }

(***************************************************************************)
(* The page after the catalog was loaded (fiat snapshot quoting EUR, the   *)
(* ranking bitcoin, ethereum, static data from initializeFallbackData),    *)
(* with a selection made or not in each field and an amount typed or not.  *)
(***************************************************************************)
LoadedCatalog ==
  << FiatEntry(EUR, << "E","u","r","o" >>), FiatEntry(USD, << "D","o","l" >>),
     CryptoEntry(BTC, << "B","i","t" >>, "bitcoin"),
     CryptoEntry(ETH, << "E","t","h","e" >>, "ethereum") >>
LoadedIds == [c \in {BTC, ETH} |-> IF c = BTC THEN "bitcoin" ELSE "ethereum"]

\* selectCurrency: the text and the dataset it leaves for an item of entry e
selectedText(code, name) == code \o << " ", "-", " " >> \o name
selectionOf(e, old) ==
  [selectedCode |-> e.code, selectedType |-> e.type,
   selectedId |-> IF e.id # NONE THEN e.id ELSE old.selectedId]

InitLoaded ==
  /\ currencyNames = FallbackNames
  /\ popularCurrencyCodes = Table(FallbackPopular)
  /\ fallbackCryptoCurrencies = Table(FallbackCryptos)
  /\ allCurrencies = LoadedCatalog
  /\ cryptoIdMap = LoadedIds
  /\ loadPc = "done"
  /\ fiatLoaded = SubSeq(LoadedCatalog, 1, 2)
  /\ inputsDisabled = FALSE

Init ==
  /\ InitLoaded
  /\ InitPage
  /\ amountValue \in AmountTexts
  /\ \E choice \in [Fields -> 0..Len(LoadedCatalog)] :
       /\ dataset = [f \in Fields |->
                       IF choice[f] = 0 THEN NoSelection
                       ELSE selectionOf(LoadedCatalog[choice[f]], NoSelection)]
       /\ value = [f \in Fields |->
                     IF choice[f] = 0 THEN << >>
                     ELSE selectedText(LoadedCatalog[choice[f]].code,
                                       LoadedCatalog[choice[f]].name)]
  /\ listItems = [f \in Fields |-> << >>]
  /\ listShow = [f \in Fields |-> FALSE]
  /\ noResults = [f \in Fields |-> FALSE]
  /\ selectedIndex = [f \in Fields |-> -1]
  /\ selectTimer = [f \in Fields |-> FALSE]

Next ==
  \/ ClickConvert
  \/ EnterAmount
  \/ \E i \in 1..Len(tasks) : \E r \in responsesOf(tasks[i]) : RateSettles(i, r)
  \/ \E i \in 1..Len(tasks) : \E r \in responsesOf(tasks[i]) : ChartSettles(i, r)

Spec == Init /\ [][Next]_vars

(***************************************************************************)
(* Two conversions of one pair in opposite directions: A to B submitted,   *)
(* the two selections exchanged by the user, B to A submitted by Enter     *)
(* while the first request is outstanding.                                 *)
(***************************************************************************)
\* the pairs of one kind of the loaded catalog, as places in LoadedCatalog
SameKindPairs == {<< 1, 2 >>, << 2, 1 >>, << 3, 4 >>, << 4, 3 >>}

\* the call convertCurrency left awaiting for the entries a to b
rateCall(a, b, amount) ==
  IF a.type = "fiat"
  THEN Task("rate", "f2f", a.code, b.code, amount, NONE, NONE, NoPrice, FALSE)
  ELSE Task("rate", "c2c", a.code, b.code, amount, a.id, b.id, NoPrice, FALSE)

InitOpposite ==
  /\ InitLoaded
  /\ swalDefined \in BOOLEAN
  /\ amountValue = << "1","0","0" >>
  /\ \E p \in SameKindPairs :
       LET a == LoadedCatalog[p[1]]
           b == LoadedCatalog[p[2]]
           amount == parseFloat(amountValue)
       IN  /\ dataset = [f \in Fields |-> IF f = "from" THEN selectionOf(b, NoSelection)
                                          ELSE selectionOf(a, NoSelection)]
           /\ value = [f \in Fields |-> IF f = "from" THEN selectedText(b.code, b.name)
                                        ELSE selectedText(a.code, a.name)]
           /\ tasks = << rateCall(a, b, amount), rateCall(b, a, amount) >>
  /\ listItems = [f \in Fields |-> << >>]
  /\ listShow = [f \in Fields |-> FALSE]
  /\ noResults = [f \in Fields |-> FALSE]
  /\ selectedIndex = [f \in Fields |-> -1]
  /\ selectTimer = [f \in Fields |-> FALSE]
  /\ btnDisabled = TRUE
  /\ popup = IF swalDefined THEN Popup("loading", "") ELSE NoPopup
  /\ resultDiv = IF swalDefined THEN ResultEmpty
                 ELSE [ResultEmpty EXCEPT !.cls = "result-section loading", !.kind = "loading"]
  /\ priceChart = NoChart
  /\ liveCharts = 0
  /\ chartView = ChartHidden

NextOpposite ==
  \/ \E i \in 1..Len(tasks) : \E r \in responsesOf(tasks[i]) : RateSettles(i, r)
  \/ \E i \in 1..Len(tasks) : \E r \in responsesOf(tasks[i]) : ChartSettles(i, r)

SpecOpposite == InitOpposite /\ [][NextOpposite]_vars

(***************************************************************************)
(* Autocomplete of a currency field: the handlers setupAutocomplete        *)
(* installs, showAutocompleteResults, showPopularCurrencies,               *)
(* renderCurrencyGroups, selectCurrency, clearSelection                    *)
(***************************************************************************)
isSpace(c) == c = " "

\* String.prototype.trim
RECURSIVE trimStart(_)
trimStart(s) == IF s # << >> /\ isSpace(s[1]) THEN trimStart(Tail(s)) ELSE s
RECURSIVE trimEnd(_)
trimEnd(s) ==
  IF s # << >> /\ isSpace(s[Len(s)]) THEN trimEnd(SubSeq(s, 1, Len(s) - 1)) ELSE s
trim(s) == trimEnd(trimStart(s))

\* s.includes(sub)
includes(s, sub) ==
  \E i \in 1..(Len(s) - Len(sub) + 1) : SubSeq(s, i, i + Len(sub) - 1) = sub

\* q.filter((c) => c.type === type)
RECURSIVE filterType(_, _)
filterType(q, type) ==
  IF q = << >> THEN << >>
  ELSE (IF q[1].type = type THEN << q[1] >> ELSE << >>) \o filterType(Tail(q), type)

\* the filter of showAutocompleteResults: the code or the name holds the query
matchesQuery(c, query) ==
  \/ includes(toLowerCase(c.code), toLowerCase(query))
  \/ includes(toLowerCase(c.name), toLowerCase(query))

RECURSIVE filterQuery(_, _)
filterQuery(q, query) ==
  IF q = << >> THEN << >>
  ELSE (IF matchesQuery(q[1], query) THEN << q[1] >> ELSE << >>)
       \o filterQuery(Tail(q), query)

\* the caps of renderCurrencyGroups
maxTotal == 30
MaxFiat == 15

\* renderCurrencyGroups with the total cap as the only cap of the fiat group
renderCurrencyGroupsNoFiatCap(currencies) ==
  LET fiatCurrencies == filterType(currencies, "fiat")
      cryptoCurrencies == filterType(currencies, "crypto")
      shownFiat == SubSeq(fiatCurrencies, 1, Min(Len(fiatCurrencies), maxTotal))
  IN  shownFiat \o SubSeq(cryptoCurrencies, 1,
                          Min(Len(cryptoCurrencies), maxTotal - Len(shownFiat)))

\* renderCurrencyGroups: the items it appends, fiat first
renderCurrencyGroups(currencies) ==
  LET fiatCurrencies == filterType(currencies, "fiat")
      cryptoCurrencies == filterType(currencies, "crypto")
      fiatToShow == Min(Min(Len(fiatCurrencies), maxTotal), MaxFiat)
      shownFiat == SubSeq(fiatCurrencies, 1, fiatToShow)
      cryptoToShow == IF Len(shownFiat) < maxTotal
                      THEN Min(Len(cryptoCurrencies), maxTotal - Len(shownFiat))
                      ELSE 0
  IN  shownFiat \o SubSeq(cryptoCurrencies, 1, cryptoToShow)

\* what a list shows: its items, the .no-results marker, the "show" class
Rendered(items, marker, show) == [items |-> items, marker |-> marker, show |-> show]

\* showAutocompleteResults without its test of an empty catalog
showAutocompleteResultsNoGuard(query) ==
  IF Len(query) = 0 THEN Rendered(<< >>, FALSE, FALSE)
  ELSE LET filtered == filterQuery(allCurrencies, query)
       IN  IF Len(filtered) > 0 THEN Rendered(renderCurrencyGroups(filtered), FALSE, TRUE)
           ELSE IF Len(query) >= 2 THEN Rendered(<< >>, TRUE, TRUE)
           ELSE Rendered(<< >>, FALSE, FALSE)

\* showAutocompleteResults(query, list, input)
showAutocompleteResults(query) ==
  IF Len(query) = 0 THEN Rendered(<< >>, FALSE, FALSE)
  ELSE IF Len(allCurrencies) = 0 THEN Rendered(<< >>, FALSE, FALSE)
  ELSE LET filtered == filterQuery(allCurrencies, query)
       IN  IF Len(filtered) > 0 THEN Rendered(renderCurrencyGroups(filtered), FALSE, TRUE)
           ELSE IF Len(query) >= 2 THEN Rendered(<< >>, TRUE, TRUE)
           ELSE Rendered(<< >>, FALSE, FALSE)

\* this.allCurrencies.find((currency) => currency.code === code), as a
\* sequence of no or one entry
findByCode(code) ==
  IF \E i \in 1..Len(allCurrencies) : allCurrencies[i].code = code
  THEN << allCurrencies[CHOOSE i \in 1..Len(allCurrencies) :
                          /\ allCurrencies[i].code = code
                          /\ \A j \in 1..(i - 1) : allCurrencies[j].code # code] >>
  ELSE << >>

\* the popular entries taken in the order of the catalog
popularEntriesCatalogOrder(codes) ==
  SelectSeq(allCurrencies, LAMBDA e : \E i \in 1..Len(codes) : codes[i] = e.code)

RECURSIVE popularEntries(_)
popularEntries(codes) ==
  IF codes = << >> THEN << >>
  ELSE findByCode(codes[1]) \o popularEntries(Tail(codes))

\* showPopularCurrencies(list, input), the list shown or not before the call.
\* Without a popular-codes table this.popularCurrencyCodes.map throws after
\* the list was emptied: the "show" class stays as it was.
showPopularCurrencies(shown) ==
  IF Len(allCurrencies) = 0 THEN Rendered(<< >>, FALSE, FALSE)
  ELSE IF ~popularCurrencyCodes.defined THEN Rendered(<< >>, FALSE, shown)
  ELSE LET popularCurrencies == popularEntries(popularCurrencyCodes.items)
       IN  IF Len(popularCurrencies) > 0 THEN Rendered(popularCurrencies, FALSE, TRUE)
           ELSE Rendered(<< >>, FALSE, FALSE)

render(f, rendered) ==
  /\ listItems' = [listItems EXCEPT ![f] = rendered.items]
  /\ noResults' = [noResults EXCEPT ![f] = rendered.marker]
  /\ listShow' = [listShow EXCEPT ![f] = rendered.show]

\* the input handler's test that the text still fits the selection
keepsSelection(text, selectedCode) ==
  LET expectedText == selectedCode \o << " ", "-", " " >>
  IN  startsWith(text, substring0(expectedText, Len(text)))

\* clearSelection(input)
clearSelection == NoSelection

\* selectCurrency(item, input, list)
selectCurrency(f, item) ==
  /\ value' = [value EXCEPT ![f] = selectedText(item.code, item.name)]
  /\ dataset' = [dataset EXCEPT ![f] = selectionOf(item, dataset[f])]
  /\ listShow' = [listShow EXCEPT ![f] = FALSE]

\* bound on the length of a text the user may type a character after
MaxTextLen == 2
TypeChars == {"U", "z"}

\* the texts one edit of text leaves: a character typed at the end, the last
\* character deleted, the whole text deleted
edits(text) ==
  ({text \o << c >> : c \in TypeChars} \cap {t \in {text \o << c >> : c \in TypeChars} :
                                               Len(text) < MaxTextLen})
  \cup (IF text = << >> THEN {} ELSE {SubSeq(text, 1, Len(text) - 1), << >>})

\* the "input" event of field f: the user's edit left newText
Input(f, newText) ==
  /\ ~inputsDisabled
  /\ newText \in edits(value[f])
  /\ value' = [value EXCEPT ![f] = newText]
  /\ dataset' = [dataset EXCEPT ![f] =
                   IF dataset[f].selectedCode # << >>
                      /\ ~keepsSelection(newText, dataset[f].selectedCode)
                   THEN clearSelection
                   ELSE dataset[f]]
  /\ render(f, showAutocompleteResults(trim(toLowerCase(newText))))
  /\ selectedIndex' = [selectedIndex EXCEPT ![f] = -1]
  /\ UNCHANGED << selectTimer, staticVars, catalogVars, swalDefined, convVars, chartVars >>

\* the "focus" event of field f
Focus(f) ==
  /\ ~inputsDisabled
  /\ LET query == trim(toLowerCase(value[f]))
         seemsLikeSelectedCurrency == includes(query, << " ", "-", " " >>) /\ Len(query) > 10
     IN  IF dataset[f].selectedCode # << >> THEN render(f, showPopularCurrencies(listShow[f]))
         ELSE IF Len(query) = 0 THEN render(f, showPopularCurrencies(listShow[f]))
         ELSE IF seemsLikeSelectedCurrency THEN render(f, showPopularCurrencies(listShow[f]))
         ELSE render(f, showAutocompleteResults(query))
  /\ UNCHANGED << value, dataset, selectedIndex, selectTimer, staticVars, catalogVars, swalDefined,
                  convVars, chartVars >>

Keys == {"ArrowDown", "ArrowUp", "Enter", "Escape"}

\* the "keydown" event of field f
KeyDown(f, key) ==
  /\ ~inputsDisabled
  /\ LET items == listItems[f]
     IN  CASE key = "ArrowDown" ->
                /\ selectedIndex' = [selectedIndex EXCEPT ![f] =
                                       Min(selectedIndex[f] + 1, Len(items) - 1)]
                /\ UNCHANGED << value, dataset, listShow >>
           [] key = "ArrowUp" ->
                /\ selectedIndex' = [selectedIndex EXCEPT ![f] =
                                       Max(selectedIndex[f] - 1, -1)]
                /\ UNCHANGED << value, dataset, listShow >>
           [] key = "Enter" ->
                IF selectedIndex[f] >= 0 /\ selectedIndex[f] < Len(items)
                THEN /\ selectCurrency(f, items[selectedIndex[f] + 1])
                     /\ UNCHANGED selectedIndex
                ELSE UNCHANGED << value, dataset, listShow, selectedIndex >>
           [] key = "Escape" ->
                /\ listShow' = [listShow EXCEPT ![f] = FALSE]
                /\ selectedIndex' = [selectedIndex EXCEPT ![f] = -1]
                /\ UNCHANGED << value, dataset >>
  /\ UNCHANGED << listItems, noResults, selectTimer, staticVars, catalogVars, swalDefined,
                  convVars, chartVars >>

\* a click on the k-th item of the list of field f
ClickItem(f, k) ==
  /\ listShow[f]
  /\ k \in 1..Len(listItems[f])
  /\ selectCurrency(f, listItems[f][k])
  /\ UNCHANGED << listItems, noResults, selectedIndex, selectTimer, staticVars,
                  catalogVars, swalDefined, convVars, chartVars >>

\* a click outside the autocomplete containers: hideAllAutocompleteLists
ClickOutside ==
  /\ \E f \in Fields : listShow[f]
  /\ listShow' = [f \in Fields |-> FALSE]
  /\ UNCHANGED << value, dataset, listItems, noResults, selectedIndex, selectTimer,
                  staticVars, catalogVars, swalDefined, convVars, chartVars >>

\* the "select" event of field f with the whole text selected: the handler
\* arms its 10 ms timer
SelectAll(f) ==
  /\ ~inputsDisabled
  /\ dataset[f].selectedCode # << >>
  /\ Len(value[f]) > 0
  /\ selectTimer' = [selectTimer EXCEPT ![f] = TRUE]
  /\ UNCHANGED << value, dataset, listItems, listShow, noResults, selectedIndex,
                  staticVars, catalogVars, swalDefined, convVars, chartVars >>

\* the timer of the "select" handler fires, the field being the active
\* element or not
SelectTimer(f, active) ==
  /\ selectTimer[f]
  /\ selectTimer' = [selectTimer EXCEPT ![f] = FALSE]
  /\ IF active THEN render(f, showPopularCurrencies(listShow[f]))
     ELSE UNCHANGED << listItems, listShow, noResults >>
  /\ UNCHANGED << value, dataset, selectedIndex, staticVars, catalogVars, swalDefined,
                  convVars, chartVars >>

\* The two fields run the same handlers, each on its own text, dataset, list
\* and selectedIndex; SpecField drives the from field and leaves the to field
\* as the page was loaded.
DrivenFields == {"from"}

\* a response that arrived, parsed, with a 2xx status
OkResponse(body) == [fetch |-> "resolved", json |-> "parsed", ok |-> TRUE, body |-> body]

\* the page before loadStaticData settles: handlers installed, no catalog
InitPreLoad ==
  /\ currencyNames = EmptyMap
  /\ popularCurrencyCodes = Table(<< >>)
  /\ fallbackCryptoCurrencies = Table(<< >>)
  /\ allCurrencies = << >>
  /\ cryptoIdMap = EmptyMap
  /\ loadPc = "static"
  /\ fiatLoaded = << >>
  /\ inputsDisabled = FALSE

\* the page loaded with static files that parse but lack their tables, the
\* fiat snapshot quoting EUR and the ranking bitcoin, ethereum
BareRanking ==
  << Asset("bitcoin", << "b","t","c" >>, << "B","i","t" >>),
     Asset("ethereum", << "e","t","h" >>, << "E","t","h","e" >>) >>
InitBare ==
  LET fiat == loadFiatCurrencies(OkResponse(RatesBody(<< [k |-> EUR, v |-> One] >>)), EmptyMap)
      crypto == loadCryptoCurrencies(OkResponse(RankingBody(BareRanking)), EmptyMap, NoTable)
  IN  /\ currencyNames = EmptyMap
      /\ popularCurrencyCodes = NoTable
      /\ fallbackCryptoCurrencies = NoTable
      /\ allCurrencies = fiat \o crypto.entries
      /\ cryptoIdMap = crypto.map
      /\ loadPc = "done"
      /\ fiatLoaded = fiat
      /\ inputsDisabled = FALSE

InitField ==
  /\ InitLoaded \/ InitPreLoad \/ InitBare
  /\ InitPage
  /\ amountValue = << >>
  /\ InitFields

NextField ==
  \/ \E f \in DrivenFields : \E t \in edits(value[f]) : Input(f, t)
  \/ \E f \in DrivenFields : Focus(f)
  \/ \E f \in DrivenFields : \E key \in Keys : KeyDown(f, key)
  \/ \E f \in DrivenFields : \E k \in 1..Len(listItems[f]) : ClickItem(f, k)
  \/ \E f \in DrivenFields : SelectAll(f)
  \/ \E f \in DrivenFields : \E active \in BOOLEAN : SelectTimer(f, active)
  \/ ClickOutside

SpecField == InitField /\ [][NextField]_vars

(***************************************************************************)
(* A conversion in flight on a page without SweetAlert2 (no modal covers   *)
(* the fields) while the user picks another entry in the source field.     *)
(***************************************************************************)
InitReselect ==
  /\ InitLoaded
  /\ swalDefined = FALSE
  /\ amountValue = << "1","0","0" >>
  /\ \E choice \in [Fields -> 1..Len(LoadedCatalog)] :
       /\ choice["from"] # choice["to"]
       /\ dataset = [f \in Fields |-> selectionOf(LoadedCatalog[choice[f]], NoSelection)]
       /\ value = [f \in Fields |-> selectedText(LoadedCatalog[choice[f]].code,
                                                  LoadedCatalog[choice[f]].name)]
  /\ tasks = << firstRequest(dataset["from"].selectedCode, dataset["to"].selectedCode,
                             parseFloat(amountValue)) >>
  /\ listItems = [f \in Fields |-> << >>]
  /\ listShow = [f \in Fields |-> FALSE]
  /\ noResults = [f \in Fields |-> FALSE]
  /\ selectedIndex = [f \in Fields |-> -1]
  /\ selectTimer = [f \in Fields |-> FALSE]
  /\ btnDisabled = TRUE
  /\ popup = NoPopup
  /\ resultDiv = [ResultEmpty EXCEPT !.cls = "result-section loading", !.kind = "loading"]
  /\ priceChart = NoChart
  /\ liveCharts = 0
  /\ chartView = ChartHidden

NextReselect ==
  \/ \E i \in 1..Len(tasks) : \E r \in responsesOf(tasks[i]) : RateSettles(i, r)
  \/ \E i \in 1..Len(tasks) : \E r \in responsesOf(tasks[i]) : ChartSettles(i, r)
  \/ \E f \in DrivenFields : Focus(f)
  \/ \E f \in DrivenFields : \E k \in 1..Len(listItems[f]) : ClickItem(f, k)

SpecReselect == InitReselect /\ [][NextReselect]_vars

(***************************************************************************)
(* The autocomplete over wide catalogs: more entries of a group than the   *)
(* caps of renderCurrencyGroups                                            *)
(***************************************************************************)
\* the i-th code of a wide rates table: UAA, UAB, ...
wideCode(i) == << "U", Upper[((i - 1) \div 26) + 1], Upper[((i - 1) % 26) + 1] >>
WideRates(n) == [i \in 1..n |-> [k |-> wideCode(i), v |-> One]]
\* the i-th coin of a wide ranking: symbol zaa, zab, ..., name Zu
wideCoin(i) ==
  Asset("coin-" \o ToString(i),
        << "z", Lower[((i - 1) \div 26) + 1], Lower[((i - 1) % 26) + 1] >>,
        << "Z", "u" >>)
WideRanking(m) == [i \in 1..m |-> wideCoin(i)]

\* the sizes of the rates tables and of the rankings the wide catalogs are
\* loaded from (loadFiatCurrencies adds USD to the table's codes)
WideFiatCounts == {0, 14, 15, 29, 30}
WideCryptoCounts == {0, 14, 16, 31}

InitWide ==
  /\ currencyNames = FallbackNames
  /\ popularCurrencyCodes = Table(FallbackPopular)
  /\ fallbackCryptoCurrencies = Table(FallbackCryptos)
  /\ \E n \in WideFiatCounts, m \in WideCryptoCounts :
       LET fiat == loadFiatCurrencies(OkResponse(RatesBody(WideRates(n))), FallbackNames)
           crypto == loadCryptoCurrencies(OkResponse(RankingBody(WideRanking(m))),
                                          EmptyMap, Table(FallbackCryptos))
       IN  /\ allCurrencies = fiat \o crypto.entries
           /\ cryptoIdMap = crypto.map
           /\ fiatLoaded = fiat
  /\ loadPc = "done"
  /\ inputsDisabled = FALSE
  /\ InitPage
  /\ amountValue = << >>
  /\ InitFields

NextWide ==
  \/ \E f \in DrivenFields : \E t \in edits(value[f]) : Input(f, t)
  \/ \E f \in DrivenFields : Focus(f)
  \/ ClickOutside

SpecWide == InitWide /\ [][NextWide]_vars

(***************************************************************************)
(* The page after the catalog was loaded from a live ranking, one in which *)
(* every asset has a symbol of its own and one in which two assets share   *)
(* the symbol btc, with an entry selected in each field.                   *)
(***************************************************************************)
Rankings ==
  { << Asset("bitcoin", << "b","t","c" >>, << "B","i","t" >>),
       Asset("ethereum", << "e","t","h" >>, << "E","t","h","e" >>) >>,
    << Asset("bitcoin", << "b","t","c" >>, << "B","i","t" >>),
       Asset("batcat", << "b","t","c" >>, << "B","a","t" >>) >> }

InitRanked ==
  /\ currencyNames = FallbackNames
  /\ popularCurrencyCodes = Table(FallbackPopular)
  /\ fallbackCryptoCurrencies = Table(FallbackCryptos)
  /\ loadPc = "done"
  /\ inputsDisabled = FALSE
  /\ InitPage
  /\ amountValue = << "1","0","0" >>
  /\ \E items \in Rankings :
       LET res == loadCryptoCurrencies(OkResponse(RankingBody(items)), EmptyMap,
                                      fallbackCryptoCurrencies)
       IN  /\ fiatLoaded = << FiatEntry(USD, << "D","o","l" >>) >>
           /\ allCurrencies = fiatLoaded \o res.entries
           /\ cryptoIdMap = res.map
  /\ \E choice \in [Fields -> 1..Len(allCurrencies)] :
       /\ dataset = [f \in Fields |-> selectionOf(allCurrencies[choice[f]], NoSelection)]
       /\ value = [f \in Fields |-> selectedText(allCurrencies[choice[f]].code,
                                                  allCurrencies[choice[f]].name)]
  /\ listItems = [f \in Fields |-> << >>]
  /\ listShow = [f \in Fields |-> FALSE]
  /\ noResults = [f \in Fields |-> FALSE]
  /\ selectedIndex = [f \in Fields |-> -1]
  /\ selectTimer = [f \in Fields |-> FALSE]

SpecRanked == InitRanked /\ [][Next]_vars

\* the conversions of SpecFair: every request issued settles in the end
Fairness ==
  /\ WF_vars(\E i \in 1..Len(tasks) : \E r \in responsesOf(tasks[i]) : RateSettles(i, r))
  /\ WF_vars(\E i \in 1..Len(tasks) : \E r \in responsesOf(tasks[i]) : ChartSettles(i, r))
SpecFair == Init /\ [][Next]_vars /\ Fairness

(***************************************************************************)
(* Properties                                                              *)
(***************************************************************************)
\* the rate requests outstanding
rateTasks(q) == {i \in 1..Len(q) : q[i].kind = "rate"}
\* the message the user sees is the error message msg
errorVisible(p, d, msg) ==
  IF swalDefined THEN p.kind = "error" /\ p.text = msg
  ELSE d.kind = "error" /\ d.text = msg
anyErrorVisible(p, d) ==
  IF swalDefined THEN p.kind = "error" ELSE d.kind = "error"

\* the inputs of convertCurrency fail validation
invalidInputs ==
  LET amount == parseFloat(amountValue)
  IN  \/ dataset["from"].selectedCode = << >>
      \/ dataset["to"].selectedCode = << >>
      \/ amount.t # "num"
      \/ amount.n <= 0
      \/ dataset["from"].selectedCode = dataset["to"].selectedCode

\* C1: a submit (click or Enter) with a missing selection, a missing or not
\* positive amount, or identical codes issues no request and shows an error
\* message; a rate request is issued only for valid inputs.
C1_ValidationBeforeRequest ==
  [][ /\ ((ClickConvert \/ EnterAmount) /\ invalidInputs)
           => (tasks' = tasks /\ anyErrorVisible(popup', resultDiv'))
      /\ (Cardinality(rateTasks(tasks')) > Cardinality(rateTasks(tasks))) => ~invalidInputs
    ]_vars

\* C1 witness: the submit of identical codes was rejected with no request out
C1_Witness ==
  /\ errorVisible(popup, resultDiv, MsgSame)
  /\ tasks = << >>
  /\ dataset["from"].selectedCode = dataset["to"].selectedCode

\* the response r to the request of the rate call t is a failure: the network,
\* the body, the status, or a missing key
failedResponse(t, r) ==
  \/ ~Parsed(r)
  \/ ~r.ok
  \/ /\ t.pc \in {"f2f", "f2c_fiat", "c2f_fiat"}
     /\ \/ ~r.body.hasRates
        \/ rateOf(r.body.rates, IF t.pc = "f2c_fiat" THEN USD ELSE t.to).t # "num"
  \/ /\ t.pc \in {"c2c", "f2c_price", "c2f_price"}
     /\ \E id \in DOMAIN r.body : ~r.body[id].present \/ r.body[id].usd.t # "num"
  \/ /\ t.pc = "f2c_fiat"
     /\ (~t.held.present \/ t.held.usd.t # "num")

\* C2: a failed response to the last request of a rate resolution ends the
\* conversion with the 'quotation unavailable' message, no result put into the
\* result panel, no further request, and the submit control enabled.
C2_FailureShowsQuoteError ==
  [][ \A i \in 1..Len(tasks) :
        tasks[i].kind = "rate" =>
          \A r \in responsesOf(tasks[i]) :
            (RateSettles(i, r) /\ failedResponse(tasks[i], r)
               /\ rateStep(tasks[i], r).status # "await")
              => /\ errorVisible(popup', resultDiv', MsgQuote)
                 /\ resultDiv'.kind # "result" \/ resultDiv' = resultDiv
                 /\ tasks' = RemoveAt(tasks, i)
                 /\ ~btnDisabled'
    ]_vars

\* C3: the submit control is disabled whenever a rate request is outstanding.
C3_DisabledWhileOutstanding == (rateTasks(tasks) # {}) => btnDisabled

\* C4: a conversion that passes validation disables the submit control; when a
\* rate resolution ends (result displayed or error) the control is enabled; and
\* a disabled control is enabled again in the end.
C4_DisabledThenEnabled ==
  /\ [][ /\ (Cardinality(rateTasks(tasks')) > Cardinality(rateTasks(tasks))) => btnDisabled'
         /\ (Cardinality(rateTasks(tasks')) < Cardinality(rateTasks(tasks))) => ~btnDisabled'
       ]_vars
  /\ (btnDisabled ~> ~btnDisabled)

\* C4 witness: a conversion failed and the control is enabled again
C4_Witness == errorVisible(popup, resultDiv, MsgQuote) /\ ~btnDisabled /\ tasks = << >>

\* C5: at most one Chart instance is live; this.priceChart is the live one.
C5_OneLiveChart == liveCharts <= 1 /\ (priceChart.exists <=> liveCharts = 1)

\* C5 witness: a chart was drawn over an earlier one, which was destroyed
C5_Witness == priceChart.exists /\ priceChart.replaced /\ liveCharts = 1

\* the labels run oldest to newest
increasing(labels) == \A i \in 1..(Len(labels) - 1) : labels[i] < labels[i + 1]

\* C6: the series handed to the chart has exactly 30 points, oldest to newest.
C6_ThirtyPoints ==
  priceChart.exists =>
    /\ Len(priceChart.labels) = 30
    /\ Len(priceChart.data) = 30
    /\ increasing(priceChart.labels)

\* the request of the chart call t failed: the history request, or the
\* baseline rate request of the fiat path (getFiatToFiatExchangeRate throws)
histFailed(t, r) ==
  \/ ~Parsed(r)
  \/ ~r.ok
  \/ t.pc = "hist" /\ ~r.body.hasPrices
  \/ t.pc = "fiatHist" /\ ~r.body.hasRates

placeholderData == [i \in 1..30 |-> Point(One, 1)]
placeholderDrawn(chart, view) ==
  chart.exists /\ chart.data = placeholderData /\ Len(chart.labels) = 30 /\ view.canvas

C8_CodesUpperUnique ==
  loadPc = "done" =>
    /\ \A i \in 1..Len(allCurrencies) :
         toUpperCase(allCurrencies[i].code) = allCurrencies[i].code
    /\ \A i, j \in 1..Len(allCurrencies) :
         allCurrencies[i].code = allCurrencies[j].code => i = j

\* C9: every crypto entry of the built catalog has an id in cryptoIdMap.
C9_CryptoEntriesIndexed ==
  loadPc = "done" =>
    \A i \in 1..Len(allCurrencies) :
      allCurrencies[i].type = "crypto" => getCryptoId(allCurrencies[i].code) # NONE

\* C9 witness: a catalog built from the live ranking, with its ids indexed
C9_Witness ==
  /\ loadPc = "done"
  /\ \E i \in 1..Len(allCurrencies) :
       /\ allCurrencies[i].type = "crypto"
       /\ allCurrencies[i].id = "ethereum"
       /\ getCryptoId(allCurrencies[i].code) = "ethereum"

\* the text selectCurrency wrote for the entry the field's dataset names
canonicalTexts(f) ==
  {selectedText(allCurrencies[i].code, allCurrencies[i].name) :
     i \in {j \in 1..Len(allCurrencies) :
              /\ allCurrencies[j].code = dataset[f].selectedCode
              /\ allCurrencies[j].type = dataset[f].selectedType}}

\* C10: a field that holds a SelectionState shows the text "CODE - Name" of the
\* selected entry.
C10_SelectionMatchesText ==
  \A f \in Fields : dataset[f].selectedCode # << >> => value[f] \in canonicalTexts(f)

\* the number of items of a type in a list
countType(items, type) == Len(filterType(items, type))
\* the place of entry e in the catalog
posOf(e) == CHOOSE k \in 1..Len(allCurrencies) : allCurrencies[k] = e
\* a list within the caps, fiat first, each group in catalog order
grouped(items) ==
  /\ Len(items) <= 30
  /\ countType(items, "fiat") <= 15
  /\ \A i, j \in 1..Len(items) :
       i < j => /\ ~(items[i].type = "crypto" /\ items[j].type = "fiat")
                /\ items[i].type = items[j].type => posOf(items[i]) < posOf(items[j])
  /\ \A i \in 1..Len(items) : \E k \in 1..Len(allCurrencies) : allCurrencies[k] = items[i]

\* C11: the result list an input event renders holds at most 30 items, at
\* most 15 of them fiat, fiat before crypto, each group in catalog order.
C11_GroupedCaps ==
  [][ \A f \in Fields : \A t \in edits(value[f]) :
        Input(f, t) => grouped(listItems'[f]) ]_vars

\* C11 witness: 15 fiat items rendered out of more fiat matches, with fewer
\* than 15 crypto matches after them
C11_Witness ==
  /\ value["from"] = << "U" >>
  /\ countType(listItems["from"], "fiat") = 15
  /\ countType(filterQuery(allCurrencies, << "u" >>), "fiat") > 15
  /\ countType(listItems["from"], "crypto") = 14
  /\ countType(filterQuery(allCurrencies, << "u" >>), "crypto") = 14

\* the list of field f shows nothing / shows the no-results marker alone
rendersNothing(items, marker, show) == items = << >> /\ ~marker /\ ~show
rendersMarker(items, marker, show) == items = << >> /\ marker /\ show
\* the query the input handler derives from the text
queryOf(text) == trim(toLowerCase(text))
noHit(query) == Len(query) >= 1 /\ filterQuery(allCurrencies, query) = << >>

\* C12, as claimed: for every catalog, the empty one included, a query of one
\* character without a hit renders nothing and a query of two or more
\* characters without a hit renders the no-results marker alone.
C12_NoHitRender ==
  [][ \A f \in Fields : \A t \in edits(value[f]) :
        (Input(f, t) /\ noHit(queryOf(t)))
          => IF Len(queryOf(t)) = 1
             THEN rendersNothing(listItems'[f], noResults'[f], listShow'[f])
             ELSE rendersMarker(listItems'[f], noResults'[f], listShow'[f]) ]_vars

\* C12, amended: that holds for a catalog with entries; while the catalog is
\* empty every query renders nothing.
C12_NoHitRenderLoaded ==
  [][ \A f \in Fields : \A t \in edits(value[f]) :
        (Input(f, t) /\ noHit(queryOf(t)))
          => IF Len(queryOf(t)) = 1 \/ Len(allCurrencies) = 0
             THEN rendersNothing(listItems'[f], noResults'[f], listShow'[f])
             ELSE rendersMarker(listItems'[f], noResults'[f], listShow'[f]) ]_vars

\* C12 witness: two characters typed without a hit in a loaded catalog, the
\* marker shown
C12_Witness ==
  /\ value["from"] = << "z", "z" >>
  /\ Len(allCurrencies) > 0
  /\ rendersMarker(listItems["from"], noResults["from"], listShow["from"])

\* the popular set: the popular codes the catalog holds, in the order of the
\* popular-codes list, each with its catalog entry
popularSet ==
  LET held == SelectSeq(popularCurrencyCodes.items,
                        LAMBDA c : \E k \in 1..Len(allCurrencies) : allCurrencies[k].code = c)
  IN  [i \in 1..Len(held) |->
         allCurrencies[CHOOSE k \in 1..Len(allCurrencies) :
                         /\ allCurrencies[k].code = held[i]
                         /\ \A j \in 1..(k - 1) : allCurrencies[j].code # held[i]]]

\* C13: a focus event on a field that is empty or holds a selection renders
\* exactly the popular set, and no marker.
C13_FocusShowsPopular ==
  [][ \A f \in Fields :
        (Focus(f) /\ (queryOf(value[f]) = << >> \/ dataset[f].selectedCode # << >>))
          => listItems'[f] = popularSet /\ ~noResults'[f] ]_vars

\* C13 witness: the popular set shown for a field that holds a selection, in
\* an order that is not the catalog's, one popular code absent from the catalog
C13_Witness ==
  /\ dataset["from"].selectedCode # << >>
  /\ listShow["from"]
  /\ listItems["from"] = popularSet
  /\ Len(popularSet) = 4
  /\ popularSet # popularEntriesCatalogOrder(popularCurrencyCodes.items)
  /\ Len(popularCurrencyCodes.items) > Len(popularSet)

\* C14: the keyboard cursor of a field lies in [-1, count - 1], count the
\* number of items in the field's list.
C14_CursorInRange ==
  \A f \in Fields : selectedIndex[f] >= -1 /\ selectedIndex[f] <= Len(listItems[f]) - 1

\* the cursor of field f is on an item of its list
highlighted(f) == selectedIndex[f] >= 0 /\ selectedIndex[f] < Len(listItems[f])
\* the SelectionState of a catalog entry: its code, kind and externalId
stateOf(e) == [selectedCode |-> e.code, selectedType |-> e.type, selectedId |-> e.id]

\* C20: Escape leaves the field's SelectionState and text unchanged, hides the
\* list and sets the cursor to -1; Enter changes the selection only when an
\* item is highlighted, and then the selection is exactly that item.
C20_EscapeEnterFrame ==
  [][ \A f \in Fields :
        /\ KeyDown(f, "Escape")
             => /\ dataset'[f] = dataset[f] /\ value'[f] = value[f]
                /\ ~listShow'[f] /\ selectedIndex'[f] = -1
        /\ KeyDown(f, "Enter")
             => IF highlighted(f)
                THEN dataset'[f] = stateOf(listItems[f][selectedIndex[f] + 1])
                ELSE dataset'[f] = dataset[f] /\ value'[f] = value[f] ]_vars

\* what every settling of the rate call at position i brings about: the chart
\* drawn stays, and the call leaves position i or moves on there
settledAt(i) ==
  /\ priceChart' = priceChart
  /\ Len(tasks') < Len(tasks) \/ tasks'[i] # tasks[i]

\* the response r is a success that quotes code in its table / every id of
\* ids with a price
quotesRate(r, code) ==
  Parsed(r) /\ r.ok /\ r.body.hasRates /\ rateOf(r.body.rates, code).t = "num"
quotesPrices(r, ids) ==
  Parsed(r) /\ r.ok /\ \A id \in ids : r.body[id].present /\ r.body[id].usd.t = "num"
\* the result panel after the step shows the conversion of call t at rate
showsRate(t, rate, panel) ==
  /\ panel.kind = "result"
  /\ panel.from = t.from /\ panel.to = t.to /\ panel.amount = t.amount
  /\ panel.rate = rate
  /\ panel.converted = JsMul(t.amount, rate)

\* C15: with successful responses the rate displayed is the one of the
\* strategy of (from.kind, to.kind): table_from[to]; price(from) / price(to);
\* 1 / price for USD, else table_from[USD] / price; price for USD, else
\* price * table_USD[to]; and the amount displayed is amount * rate.
C15_StrategyByKinds ==
  [][ \A i \in 1..Len(tasks) :
        (tasks[i].kind = "rate" /\ settledAt(i)) =>
          \A r \in responsesOf(tasks[i]) :
            (Parsed(r) /\ r.ok /\ convertCurrencyResumes(i, r)) =>
              LET t == tasks[i]
                  fromKind == dataset["from"].selectedType
                  toKind == dataset["to"].selectedType
                  fromId == dataset["from"].selectedId
                  toId == dataset["to"].selectedId
              IN  CASE fromKind = "fiat" /\ toKind = "fiat" ->
                         quotesRate(r, t.to)
                           => showsRate(t, rateOf(r.body.rates, t.to), resultDiv')
                    [] fromKind = "crypto" /\ toKind = "crypto" ->
                         quotesPrices(r, {fromId, toId})
                           => showsRate(t, JsDiv(r.body[fromId].usd, r.body[toId].usd),
                                        resultDiv')
                    [] fromKind = "fiat" /\ toKind = "crypto" ->
                         IF t.from = USD
                         THEN quotesPrices(r, {toId})
                                => showsRate(t, JsDiv(One, r.body[toId].usd), resultDiv')
                         ELSE IF t.pc = "f2c_price"
                         THEN quotesPrices(r, {toId})
                                => /\ Len(tasks') = Len(tasks)
                                   /\ tasks'[i].held = r.body[toId]
                                   /\ resultDiv' = resultDiv
                         ELSE (quotesRate(r, USD) /\ t.held.usd.t = "num")
                                => showsRate(t, JsDiv(rateOf(r.body.rates, USD), t.held.usd),
                                             resultDiv')
                    [] fromKind = "crypto" /\ toKind = "fiat" ->
                         IF t.to = USD
                         THEN quotesPrices(r, {fromId})
                                => showsRate(t, r.body[fromId].usd, resultDiv')
                         ELSE IF t.pc = "c2f_price"
                         THEN quotesPrices(r, {fromId})
                                => /\ Len(tasks') = Len(tasks)
                                   /\ tasks'[i].held = r.body[fromId]
                                   /\ resultDiv' = resultDiv
                         ELSE (quotesRate(r, t.to) /\ t.held.usd.t = "num")
                                => showsRate(t, JsMul(t.held.usd, rateOf(r.body.rates, t.to)),
                                             resultDiv')
    ]_vars

\* C15 witness: USD to EUR, 100, with the table {EUR: 0.9}: rate 0.9, 90 out
C15_Witness ==
  /\ resultDiv.kind = "result"
  /\ resultDiv.from = USD /\ resultDiv.to = EUR
  /\ resultDiv.amount = Num(100, 1)
  /\ resultDiv.rate = Num(9, 10)
  /\ resultDiv.converted = Num(90, 1)

\* the legs of the catalog load succeed on response r
fiatLegOk(r) == Parsed(r) /\ r.ok /\ r.body.hasRates
cryptoLegOk(r) ==
  Parsed(r) /\ r.ok /\ r.body.isArray /\ \A i \in 1..Len(r.body.items) : r.body.items[i].hasSymbol
\* the codes of a list of entries
codesOf(entries) == [i \in 1..Len(entries) |-> entries[i].code]

C17_InputsEnabledAgain == inputsDisabled ~> ~inputsDisabled

\* the result panel goes from the result of a pair to the result of the
\* opposite pair, both with a number for a rate
oppositeResults(before, after) ==
  /\ before.kind = "result" /\ after.kind = "result"
  /\ after.from = before.to /\ after.to = before.from
  /\ before.rate.t = "num" /\ after.rate.t = "num"

\* the rate the strategy of call t reads off response r: table[to] for two
\* fiat codes, price(from) / price(to) for two crypto codes
quoteOf(t, r) ==
  IF t.pc = "f2f" THEN rateOf(r.body.rates, t.to)
  ELSE JsDiv(r.body[t.fromId].usd, r.body[t.toId].usd)

fiatLeg(t) == IF t.pc = "f2c_price" THEN t.from ELSE t.to
cryptoLeg(t) == IF t.pc = "f2c_price" THEN t.toId ELSE t.fromId
fiatPc(t) == IF t.pc = "f2c_price" THEN "f2c_fiat" ELSE "c2f_fiat"

\* the call at position i issued a further request in this step
issuesRequest(i) == Len(tasks') = Len(tasks) /\ tasks'[i].kind = "rate"

\* C19: a rate resolution has one request outstanding at a time.  A further
\* request is issued only by the settling of the crypto-price request of a
\* Fiat/Crypto resolution whose fiat leg is not USD; it is the fiat-table
\* request and the call keeps the price it got.  Whenever that price request
\* yields a price the table request is issued.  The single request of
\* Fiat->Fiat and of Crypto->Crypto is never followed by another.
C19_SequentialRequests ==
  [][ \A i \in 1..Len(tasks) :
        (tasks[i].kind = "rate" /\ settledAt(i)) =>
          \A r \in responsesOf(tasks[i]) :
            convertCurrencyResumes(i, r) =>
              LET t == tasks[i]
                  mixed == t.pc \in {"f2c_price", "c2f_price"}
              IN  /\ Len(SelectSeq(tasks', LAMBDA x : x.kind = "rate"))
                       <= Len(SelectSeq(tasks, LAMBDA x : x.kind = "rate"))
                  /\ issuesRequest(i) =>
                       /\ mixed /\ fiatLeg(t) # USD /\ Parsed(r)
                       /\ tasks' = [tasks EXCEPT ![i] =
                                      [t EXCEPT !.pc = fiatPc(t), !.held = r.body[cryptoLeg(t)]]]
                       /\ responsesOf(tasks'[i]) = TableResponses(IF t.pc = "f2c_price" THEN USD ELSE t.to)
                  /\ (mixed /\ fiatLeg(t) # USD /\ Parsed(r) /\ r.body[cryptoLeg(t)].present)
                       => issuesRequest(i)
    ]_vars

\* C19 witness: a EUR to BTC resolution holds the price 2 of its first
\* response and awaits the fiat table
C19_Witness ==
  \E i \in 1..Len(tasks) :
    /\ tasks[i].kind = "rate" /\ tasks[i].pc = "f2c_fiat"
    /\ tasks[i].from = EUR /\ tasks[i].to = BTC
    /\ tasks[i].held = Price(Num(2, 1))

\* q is in the order of localeCompare on the codes
sortedByCode(q) == \A i, j \in 1..Len(q) : i < j => ~localeLess(q[j].code, q[i].code)

\* the response of a catalog leg is one its try block gets through
fiatLive(r) == Parsed(r) /\ r.ok /\ r.body.hasRates
cryptoLive(r) == Parsed(r) /\ r.ok /\ r.body.isArray /\ firstBad(r.body.items) = 0

\* no catalog before loadCurrencies has both legs, and the two inputs disabled
\* while it waits for them
noHalfCatalog ==
  /\ loadPc # "done" => allCurrencies = << >>
  /\ loadPc \in {"fiat", "crypto"} => inputsDisabled

\* the step that assigns the catalog: the fiat entries kept from the fiat leg,
\* then the entries of the crypto leg in the order of its source
assignsBothLegs ==
  \A r \in RankingResponses :
    (CryptoLoaded(r) /\ loadPc' = "done") =>
      /\ allCurrencies' =
           fiatLoaded \o (IF cryptoLive(r) THEN liveEntries(r.body.items)
                          ELSE fallbackCryptoCurrencies.items)
      /\ ~inputsDisabled'

\* C21, as claimed: the catalog is assigned once, after both legs, as the
\* fiat entries sorted by code followed by the crypto entries in the order of
\* their source; before that the catalog is empty and, from the start of the
\* load, the two inputs are disabled.
C21_CatalogAfterBothLegs ==
  [][ /\ noHalfCatalog /\ noHalfCatalog'
      /\ loadPc = "crypto" => assignsBothLegs
      /\ loadPc = "fiat" => sortedByCode(fiatLoaded')
    ]_vars

\* C21, amended: the fiat entries are sorted by code when the fiat request
\* succeeded and are the fixed fallback list, in its own order, when it failed.
C21_CatalogAfterBothLegsLiveSorted ==
  [][ /\ noHalfCatalog /\ noHalfCatalog'
      /\ loadPc = "crypto" => assignsBothLegs
      /\ loadPc = "fiat" =>
           \A r \in FiatLoadResponses :
             FiatLoaded(r) => IF fiatLive(r) THEN sortedByCode(fiatLoaded')
                              ELSE fiatLoaded' = FiatFallback
    ]_vars

\* C21 witness: the catalog assigned from both live legs, EUR before USD
\* before a ranked asset
C21_Witness ==
  /\ loadPc = "done" /\ ~inputsDisabled
  /\ Len(allCurrencies) >= 3
  /\ allCurrencies[1].code = EUR /\ allCurrencies[2].code = USD
  /\ allCurrencies[3].type = "crypto" /\ allCurrencies[3].id = "ethereum"

\* the kinds of the pair in the two fields
fromKind == dataset["from"].selectedType
toKind == dataset["to"].selectedType
\* the series is inverted for a Fiat source with a Crypto target only
invertsFor(a, b) == a = "fiat" /\ b = "crypto"

\* the request displayPriceChart leaves the call at position i with, for the
\* pair of the call t
seriesRequestByKinds(i, t) ==
  /\ Len(tasks') = Len(tasks)
  /\ tasks'[i].kind = "chart"
  /\ tasks'[i].from = t.from /\ tasks'[i].to = t.to
  /\ IF fromKind = "crypto" \/ toKind = "crypto"
     THEN /\ tasks'[i].pc = "hist"
          /\ tasks'[i].fromId = IF fromKind = "crypto" THEN dataset["from"].selectedId
                                ELSE dataset["to"].selectedId
          /\ tasks'[i].inverse = invertsFor(fromKind, toKind)
          /\ responsesOf(tasks'[i]) = HistResponses
     ELSE /\ tasks'[i].pc = "fiatHist"
          /\ responsesOf(tasks'[i]) = TableResponses(t.to)

\* the series drawn from response r for the chart call t
seriesDrawnByKinds(t, r) ==
  IF fromKind = "crypto" \/ toKind = "crypto"
  THEN /\ t.pc = "hist"
       /\ Len(priceChart'.data) = Len(r.body.prices)
       /\ \A k \in 1..Len(r.body.prices) :
            priceChart'.data[k] =
              Point(IF invertsFor(fromKind, toKind) THEN JsDiv(One, r.body.prices[k].price)
                    ELSE r.body.prices[k].price, 0)
  ELSE /\ t.pc = "fiatHist"
       /\ Len(priceChart'.data) = ChartDays
       /\ \A k \in 1..ChartDays :
            priceChart'.data[k] =
              IF quotesRate(r, t.to) THEN Point(rateOf(r.body.rates, t.to), 2)
              ELSE priceChart'.data[k]

\* C22: after a conversion displayPriceChart asks for the 30-day USD prices of
\* the Crypto leg (the source's when the source is Crypto) if the pair has
\* one, and draws them inverted exactly for a Fiat source with a Crypto
\* target; for two Fiat codes it asks for the live rate table, no history, and
\* draws 30 points around the rate the table quotes.
C22_SeriesByKinds ==
  [][ \A i \in 1..Len(tasks) :
        /\ (tasks[i].kind = "rate" /\ settledAt(i)) =>
             \A r \in responsesOf(tasks[i]) :
               (Parsed(r) /\ convertCurrencyResumes(i, r) /\ rateStep(tasks[i], r).status = "return")
                 => seriesRequestByKinds(i, tasks[i])
        /\ (tasks[i].kind = "chart" /\ priceChart' # priceChart) =>
             \A r \in responsesOf(tasks[i]) :
               ChartSettles(i, r) => seriesDrawnByKinds(tasks[i], r)
    ]_vars

\* C22 witness: the chart of EUR to BTC drawn from prices of 2 as 1/2
C22_Witness ==
  /\ priceChart.exists
  /\ priceChart.title = << EUR, BTC >>
  /\ Len(priceChart.data) = ChartDays
  /\ priceChart.data[1] = Point(Frac(1, 2), 0)

\* the pair submitted last is the pair the two fields hold; the pair
\* submitted before it is the same two codes the other way round
latestPair == << dataset["from"].selectedCode, dataset["to"].selectedCode >>
earlierPair == << dataset["to"].selectedCode, dataset["from"].selectedCode >>
resultOf(panel, pair) == panel.kind = "result" /\ << panel.from, panel.to >> = pair
chartOf(chart, pair) == chart.exists /\ chart.title = pair

\* C23: a response of the conversion submitted earlier never replaces the
\* result or the chart of the conversion submitted last.
C23_LatestWins ==
  [][ /\ resultOf(resultDiv, latestPair) => ~resultOf(resultDiv', earlierPair)
      /\ chartOf(priceChart, latestPair) => ~chartOf(priceChart', earlierPair)
    ]_vars

\* C24: a field's stored id is the id of the entry it has selected: absent for
\* a Fiat selection and for no selection, and the id of a catalog entry of
\* that code and kind otherwise.
C24_IdOfSelection ==
  \A f \in Fields :
    IF dataset[f].selectedCode = << >> \/ dataset[f].selectedType = "fiat"
    THEN dataset[f].selectedId = NONE
    ELSE \E k \in 1..Len(allCurrencies) :
           /\ allCurrencies[k].code = dataset[f].selectedCode
           /\ allCurrencies[k].type = dataset[f].selectedType
           /\ allCurrencies[k].id = dataset[f].selectedId

\* the id the price request of the rate call t carries for the asset whose
\* history displayPriceChart asks for: the source's when the source is Crypto
priceIdOf(t) == IF t.pc \in {"c2c", "c2f_price", "c2f_fiat"} THEN t.fromId ELSE t.toId

\* C25: the history request displayPriceChart issues for a conversion carries
\* the id the price request of that conversion carried.
C25_HistoryIdIsPriceId ==
  [][ \A i \in 1..Len(tasks) :
        ( /\ tasks[i].kind = "rate"
          /\ Len(tasks') = Len(tasks)
          /\ tasks'[i].kind = "chart" /\ tasks'[i].pc = "hist" )
          => tasks'[i].fromId = priceIdOf(tasks[i])
    ]_vars

\* the kinds the rate call t was validated and resolved with, read off the
\* rate method convertCurrency chose for it
submittedFromKind(t) == IF t.pc \in {"f2f", "f2c_price", "f2c_fiat"} THEN "fiat" ELSE "crypto"
submittedToKind(t) == IF t.pc \in {"f2f", "c2f_price", "c2f_fiat"} THEN "fiat" ELSE "crypto"

\* the description of the sources of a pair of kinds
sourcesOf(a, b) ==
  IF a # b THEN "CoinGecko API y ExchangeRate-API"
  ELSE IF a = "crypto" THEN "CoinGecko API"
  ELSE "ExchangeRate-API"

\* C26: when the rate of a conversion has resolved, the description of the
\* sources and the series asked for are those of the kinds the conversion was
\* submitted with, whatever the two fields hold by then.
C26_KindsOfSubmission ==
  [][ \A i \in 1..Len(tasks) :
        (tasks[i].kind = "rate" /\ settledAt(i)) =>
          \A r \in responsesOf(tasks[i]) :
            (Parsed(r) /\ convertCurrencyResumes(i, r) /\ rateStep(tasks[i], r).status = "return")
              => LET t == tasks[i]
                     a == submittedFromKind(t)
                     b == submittedToKind(t)
                 IN  /\ resultDiv'.sources = sourcesOf(a, b)
                     /\ Len(tasks') = Len(tasks)
                     /\ tasks'[i].kind = "chart"
                     /\ tasks'[i].pc = IF a = "fiat" /\ b = "fiat" THEN "fiatHist" ELSE "hist"
                     /\ tasks'[i].inverse = invertsFor(a, b)
    ]_vars

====
